---- MODULE Spec2Model ----
(***************************************************************************)
(* AsyncJob of source-facebook-marketing (streams/async_job.py): the       *)
(* wrapper around one remote AdReportRun, with start / restart, direct     *)
(* polling (completed), batch polling (batch_update_request /              *)
(* process_batch_result), result retrieval and the retry decorator.        *)
(***************************************************************************)
EXTENDS Integers, Sequences, FiniteSets, TLC

(* ---------------------------------------------------------------------- *)
(* Bounds of the model                                                     *)
(* ---------------------------------------------------------------------- *)
MaxClock == 2      \* pendulum.now() returns 1..MaxClock
MaxIssued == 2     \* report runs the remote service creates

(* ---------------------------------------------------------------------- *)
(* Program constants                                                       *)
(* ---------------------------------------------------------------------- *)
MaxTries == 5      \* max_tries of backoff_policy

NoJob == 0         \* self._job = None
NoTime == 0        \* self._start_time / self._finish_time = None

(* class Status *)
COMPLETED == "Job Completed"
FAILED == "Job Failed"
SKIPPED == "Job Skipped"
STARTED == "Job Started"
RUNNING == "Job Running"
NOT_STARTED == "Job Not Started"
Status == {COMPLETED, FAILED, SKIPPED, STARTED, RUNNING, NOT_STARTED}

NoStatus == "no async_status"   \* handle that was never refreshed

VARIABLES
  job,          \* self._job: NoJob or the report_run_id of the handle
  jobStatus,    \* self._job["async_status"]: the last observed status
  start_time,   \* self._start_time
  finish_time,  \* self._finish_time
  failed,       \* self._failed
  clock,        \* the value pendulum.now() returns
  issued,       \* report runs created by the remote service so far
  remote,       \* status the remote service reports for the current run
  reported,     \* statuses it has reported for the runs of this job
  op,           \* the operation performed last
  ret,          \* what it returned or raised
  calls,        \* remote calls it made
  tries,        \* invocations of the retried function it made
  hist          \* the last successive completed() calls that refreshed

vars == <<job, jobStatus, start_time, finish_time, failed, clock, issued,
          remote, reported, op, ret, calls, tries, hist>>

Self == [job |-> job, jobStatus |-> jobStatus, start_time |-> start_time,
         finish_time |-> finish_time, failed |-> failed]

(* ---------------------------------------------------------------------- *)
(* The remote service                                                      *)
(* ---------------------------------------------------------------------- *)
Rank(s) ==
  CASE s = NOT_STARTED -> 0
    [] s = STARTED     -> 1
    [] s = RUNNING     -> 2
    [] OTHER           -> 3

IsTerminal(s) == s \in {COMPLETED, FAILED, SKIPPED}

IsFailure(s) == s \in {FAILED, SKIPPED}

(* What the remote service does with the calls of one operation: the first *)
(* k calls raise the transient FacebookRequestError, the next one ends     *)
(* with `fin` (an answer, or an error that is not retried). More than      *)
(* MaxTries failures in a row are never seen by the caller.                *)
Faults == 0..MaxTries

Finals == {"ok", "fatal"}

(* The behaviours of the remote service an operation can tell apart: none  *)
(* when the operation makes no remote call (idle), and the final outcome   *)
(* is never reached after MaxTries failures.                               *)
Behaviours(idle) ==
  IF idle
    THEN {[k |-> 0, fin |-> "ok"]}
    ELSE {b \in [k : Faults, fin : Finals] :
            b.k = MaxTries => b.fin = "ok"}

(* ---------------------------------------------------------------------- *)
(* The retry decorator                                                     *)
(* ---------------------------------------------------------------------- *)
(* usage: the decorated function raises RuntimeError before any remote     *)
(* call (not a FacebookRequestError, so it is not caught).                 *)
backoff_policy(usage, k, fin) ==
  IF usage
    THEN [ret |-> "RuntimeError", calls |-> 0, tries |-> 1]
    ELSE IF k >= MaxTries
      THEN [ret |-> "FacebookRequestError", calls |-> MaxTries,
            tries |-> MaxTries]
      ELSE [ret |-> IF fin = "ok" THEN "ok" ELSE "FatalError",
            calls |-> k + 1, tries |-> k + 1]

(* ---------------------------------------------------------------------- *)
(* AsyncJob: the methods as functions of the object s, the time now, the   *)
(* number of report runs issued and the behaviour of the remote service    *)
(* ---------------------------------------------------------------------- *)
(* start without the check that the job has no handle yet *)
start_no_guard(s, now, iss, k, fin) ==
  LET r == backoff_policy(FALSE, k, fin) IN
  IF r.ret = "ok"
    THEN [self |-> [s EXCEPT !.job = iss + 1, !.jobStatus = NoStatus,
                             !.start_time = now],
          issued |-> iss + 1,
          ret |-> "None", calls |-> r.calls, tries |-> r.tries]
    ELSE [self |-> s, issued |-> iss,
          ret |-> r.ret, calls |-> r.calls, tries |-> r.tries]

(* start that stamps _start_time before the remote call *)
start_stamps_first(s, now, iss, k, fin) ==
  LET r == backoff_policy(s.job # NoJob, k, fin) IN
  IF r.ret = "ok"
    THEN [self |-> [s EXCEPT !.job = iss + 1, !.jobStatus = NoStatus,
                             !.start_time = now],
          issued |-> iss + 1,
          ret |-> "None", calls |-> r.calls, tries |-> r.tries]
    ELSE [self |-> IF r.ret = "RuntimeError"
                     THEN s ELSE [s EXCEPT !.start_time = now],
          issued |-> iss,
          ret |-> r.ret, calls |-> r.calls, tries |-> r.tries]

start(s, now, iss, k, fin) ==
  LET r == backoff_policy(s.job # NoJob, k, fin) IN
  IF r.ret = "ok"
    THEN [self |-> [s EXCEPT !.job = iss + 1, !.jobStatus = NoStatus,
                             !.start_time = now],
          issued |-> iss + 1,
          ret |-> "None", calls |-> r.calls, tries |-> r.tries]
    ELSE [self |-> s, issued |-> iss,
          ret |-> r.ret, calls |-> r.calls, tries |-> r.tries]

(* restart that forgets to clear _finish_time *)
restart_keeps_finish(s, now, iss, k, fin) ==
  IF s.job = NoJob \/ ~s.failed
    THEN [self |-> s, issued |-> iss,
          ret |-> "RuntimeError", calls |-> 0, tries |-> 0]
    ELSE start([s EXCEPT !.job = NoJob, !.jobStatus = NoStatus,
                         !.failed = FALSE, !.start_time = NoTime],
               now, iss, k, fin)

(* restart that forgets to clear _failed *)
restart_keeps_failed(s, now, iss, k, fin) ==
  IF s.job = NoJob \/ ~s.failed
    THEN [self |-> s, issued |-> iss,
          ret |-> "RuntimeError", calls |-> 0, tries |-> 0]
    ELSE start([s EXCEPT !.job = NoJob, !.jobStatus = NoStatus,
                         !.start_time = NoTime, !.finish_time = NoTime],
               now, iss, k, fin)

(* restart that forgets to clear _start_time *)
restart_keeps_start(s, now, iss, k, fin) ==
  IF s.job = NoJob \/ ~s.failed
    THEN [self |-> s, issued |-> iss,
          ret |-> "RuntimeError", calls |-> 0, tries |-> 0]
    ELSE start([s EXCEPT !.job = NoJob, !.jobStatus = NoStatus,
                         !.failed = FALSE, !.finish_time = NoTime],
               now, iss, k, fin)

restart(s, now, iss, k, fin) ==
  IF s.job = NoJob \/ ~s.failed
    THEN [self |-> s, issued |-> iss,
          ret |-> "RuntimeError", calls |-> 0, tries |-> 0]
    ELSE start([s EXCEPT !.job = NoJob, !.jobStatus = NoStatus,
                         !.failed = FALSE, !.start_time = NoTime,
                         !.finish_time = NoTime],
               now, iss, k, fin)

(* _check_status that does not stamp _finish_time on Completed *)
check_status_no_stamp(s, now) ==
  IF s.jobStatus = COMPLETED
    THEN [self |-> s, ret |-> "True"]
    ELSE IF s.jobStatus \in {FAILED, SKIPPED}
      THEN [self |-> [s EXCEPT !.finish_time = now, !.failed = TRUE],
            ret |-> "True"]
      ELSE [self |-> s, ret |-> "False"]

(* _check_status that does not count Skipped as a failure *)
check_status_skipped_ok(s, now) ==
  IF s.jobStatus \in {COMPLETED, SKIPPED}
    THEN [self |-> [s EXCEPT !.finish_time = now], ret |-> "True"]
    ELSE IF s.jobStatus = FAILED
      THEN [self |-> [s EXCEPT !.finish_time = now, !.failed = TRUE],
            ret |-> "True"]
      ELSE [self |-> s, ret |-> "False"]

(* _check_status that resets _failed while the job is not terminal *)
check_status_clears_failed(s, now) ==
  IF s.jobStatus = COMPLETED
    THEN [self |-> [s EXCEPT !.finish_time = now], ret |-> "True"]
    ELSE IF s.jobStatus \in {FAILED, SKIPPED}
      THEN [self |-> [s EXCEPT !.finish_time = now, !.failed = TRUE],
            ret |-> "True"]
      ELSE [self |-> [s EXCEPT !.failed = FALSE], ret |-> "False"]

check_status(s, now) ==
  IF s.jobStatus = COMPLETED
    THEN [self |-> [s EXCEPT !.finish_time = now], ret |-> "True"]
    ELSE IF s.jobStatus \in {FAILED, SKIPPED}
      THEN [self |-> [s EXCEPT !.finish_time = now, !.failed = TRUE],
            ret |-> "True"]
      ELSE [self |-> s, ret |-> "False"]

(* _update_job without the check that the job has a handle *)
update_job_no_guard(s, rem, k, fin) ==
  LET r == backoff_policy(FALSE, k, fin) IN
  [self |-> IF r.ret = "ok" THEN [s EXCEPT !.jobStatus = rem] ELSE s,
   ret |-> r.ret, calls |-> r.calls, tries |-> r.tries]

(* _update_job that drops the refreshed handle *)
update_job_keeps_status(s, rem, k, fin) ==
  LET r == backoff_policy(s.job = NoJob, k, fin) IN
  [self |-> s, ret |-> r.ret, calls |-> r.calls, tries |-> r.tries]

update_job(s, rem, k, fin) ==
  LET r == backoff_policy(s.job = NoJob, k, fin) IN
  [self |-> IF r.ret = "ok" THEN [s EXCEPT !.jobStatus = rem] ELSE s,
   ret |-> r.ret, calls |-> r.calls, tries |-> r.tries]

(* completed without the shortcut for a finished job *)
completed_no_memo(s, now, rem, k, fin) ==
  LET u == update_job(s, rem, k, fin) IN
  IF u.ret = "ok"
    THEN LET c == check_status(u.self, now) IN
         [self |-> c.self, ret |-> c.ret,
          calls |-> u.calls, tries |-> u.tries, seen |-> rem]
    ELSE [self |-> s, ret |-> u.ret,
          calls |-> u.calls, tries |-> u.tries,
          seen |-> "refresh failed"]

(* completed that marks the job failed when the refresh raises *)
completed_marks_failed(s, now, rem, k, fin) ==
  IF s.finish_time # NoTime
    THEN [self |-> s, ret |-> "True", calls |-> 0, tries |-> 0,
          seen |-> "no refresh"]
    ELSE LET u == update_job(s, rem, k, fin) IN
         IF u.ret = "ok"
           THEN LET c == check_status(u.self, now) IN
                [self |-> c.self, ret |-> c.ret,
                 calls |-> u.calls, tries |-> u.tries, seen |-> rem]
           ELSE [self |-> [s EXCEPT !.failed = TRUE], ret |-> u.ret,
                 calls |-> u.calls, tries |-> u.tries,
                 seen |-> "refresh failed"]

completed(s, now, rem, k, fin) ==
  IF s.finish_time # NoTime
    THEN [self |-> s, ret |-> "True", calls |-> 0, tries |-> 0,
          seen |-> "no refresh"]
    ELSE LET u == update_job(s, rem, k, fin) IN
         IF u.ret = "ok"
           THEN LET c == check_status(u.self, now) IN
                [self |-> c.self, ret |-> c.ret,
                 calls |-> u.calls, tries |-> u.tries, seen |-> rem]
           ELSE [self |-> s, ret |-> u.ret,
                 calls |-> u.calls, tries |-> u.tries,
                 seen |-> "refresh failed"]

batch_update_request(s) ==
  IF s.finish_time # NoTime
    THEN "None"
    ELSE IF s.job = NoJob THEN "AttributeError" ELSE "Request"

process_batch_result(s, now, resp) ==
  IF s.job = NoJob
    THEN [self |-> s, ret |-> "FacebookBadObjectError"]
    ELSE LET c == check_status([s EXCEPT !.jobStatus = resp], now) IN
         [self |-> c.self, ret |-> "None"]

(* get_result that does not look at failed *)
get_result_ignores_failed(s, k, fin) ==
  LET r == backoff_policy(s.job = NoJob, k, fin) IN
  [ret |-> IF r.ret = "ok" THEN "Result" ELSE r.ret,
   calls |-> r.calls, tries |-> r.tries]

get_result(s, k, fin) ==
  LET r == backoff_policy(s.job = NoJob \/ s.failed, k, fin) IN
  [ret |-> IF r.ret = "ok" THEN "Result" ELSE r.ret,
   calls |-> r.calls, tries |-> r.tries]

elapsed_time(s, now) ==
  IF s.start_time = NoTime
    THEN "None"
    ELSE IF s.finish_time # NoTime
      THEN s.finish_time - s.start_time
      ELSE now - s.start_time

(* ---------------------------------------------------------------------- *)
(* The state machine                                                       *)
(* ---------------------------------------------------------------------- *)
Init ==
  /\ job = NoJob
  /\ jobStatus = NoStatus
  /\ start_time = NoTime
  /\ finish_time = NoTime
  /\ failed = FALSE
  /\ clock = 1
  /\ issued = 0
  /\ remote = NOT_STARTED
  /\ reported = {}
  /\ op = "init"
  /\ ret = "None"
  /\ calls = 0
  /\ tries = 0
  /\ hist = <<>>

Install(s) ==
  /\ job' = s.job
  /\ jobStatus' = s.jobStatus
  /\ start_time' = s.start_time
  /\ finish_time' = s.finish_time
  /\ failed' = s.failed

(* hist keeps the last three calls. *)
Window(h) == IF Len(h) > 3 THEN Tail(h) ELSE h

Start ==
  \E b \in Behaviours(job # NoJob) :
    LET r == start(Self, clock, issued, b.k, b.fin) IN
    /\ r.issued <= MaxIssued
    /\ Install(r.self)
    /\ issued' = r.issued
    /\ remote' = IF r.issued # issued THEN NOT_STARTED ELSE remote
    /\ reported' = IF r.issued # issued THEN reported \cup {NOT_STARTED}
                                         ELSE reported
    /\ op' = "start" /\ ret' = r.ret /\ calls' = r.calls /\ tries' = r.tries
    /\ hist' = <<>>
    /\ UNCHANGED clock

Restart ==
  \E b \in Behaviours(job = NoJob \/ ~failed) :
    LET r == restart(Self, clock, issued, b.k, b.fin) IN
    /\ r.issued <= MaxIssued
    /\ Install(r.self)
    /\ issued' = r.issued
    /\ remote' = IF r.self.job # job THEN NOT_STARTED ELSE remote
    /\ reported' = IF r.issued # issued THEN reported \cup {NOT_STARTED}
                                         ELSE reported
    /\ op' = "restart" /\ ret' = r.ret /\ calls' = r.calls
    /\ tries' = r.tries
    /\ hist' = <<>>
    /\ UNCHANGED clock

Completed ==
  \E b \in Behaviours(job = NoJob \/ finish_time # NoTime) :
    LET r == completed(Self, clock, remote, b.k, b.fin) IN
    /\ Install(r.self)
    /\ op' = "completed" /\ ret' = r.ret /\ calls' = r.calls
    /\ tries' = r.tries
    /\ hist' = IF r.seen \in Status
                 THEN Window(Append(hist,
                        [seen |-> r.seen, ret |-> r.ret,
                         finished |-> r.self.finish_time # NoTime,
                         failed |-> r.self.failed]))
                 ELSE <<>>
    /\ UNCHANGED <<clock, issued, remote, reported>>

BatchUpdateRequest ==
  /\ op' = "batch_update_request"
  /\ ret' = batch_update_request(Self)
  /\ calls' = 0 /\ tries' = 0
  /\ hist' = <<>>
  /\ UNCHANGED <<job, jobStatus, start_time, finish_time, failed, clock,
                 issued, remote, reported>>

ProcessBatchResult ==
  \E resp \in reported :
    LET r == process_batch_result(Self, clock, resp) IN
    /\ Install(r.self)
    /\ op' = "process_batch_result" /\ ret' = r.ret
    /\ calls' = 0 /\ tries' = 0
    /\ hist' = <<>>
    /\ UNCHANGED <<clock, issued, remote, reported>>

FetchResult ==
  \E b \in Behaviours(job = NoJob \/ failed) :
    LET r == get_result(Self, b.k, b.fin) IN
    /\ op' = "get_result" /\ ret' = r.ret /\ calls' = r.calls
    /\ tries' = r.tries
    /\ hist' = <<>>
    /\ UNCHANGED <<job, jobStatus, start_time, finish_time, failed, clock,
                   issued, remote, reported>>

ElapsedTime ==
  /\ op' = "elapsed_time"
  /\ ret' = elapsed_time(Self, clock)
  /\ calls' = 0 /\ tries' = 0
  /\ hist' = <<>>
  /\ UNCHANGED <<job, jobStatus, start_time, finish_time, failed, clock,
                 issued, remote, reported>>

(* The remote service moves the current report run forward. A batch        *)
(* response handed to process_batch_result is a snapshot taken at some     *)
(* earlier time, so it carries one of the statuses reported so far.        *)
RemoteProgress ==
  /\ job # NoJob
  /\ \E s \in Status :
       /\ Rank(s) > Rank(remote)
       /\ remote' = s
       /\ reported' = reported \cup {s}
  /\ UNCHANGED <<job, jobStatus, start_time, finish_time, failed, clock,
                 issued, op, ret, calls, tries, hist>>

(* Time passes. *)
Tick ==
  /\ clock < MaxClock
  /\ clock' = clock + 1
  /\ UNCHANGED <<job, jobStatus, start_time, finish_time, failed, issued,
                 remote, reported, op, ret, calls, tries, hist>>

Next ==
  \/ Start
  \/ Restart
  \/ Completed
  \/ BatchUpdateRequest
  \/ ProcessBatchResult
  \/ FetchResult
  \/ ElapsedTime
  \/ RemoteProgress
  \/ Tick

Spec == Init /\ [][Next]_vars

(* The polling loop of a caller: start the job, then poll it directly or  *)
(* through the batch path until it is finished. The remote service keeps   *)
(* moving the run forward until it is terminal, and a refresh that         *)
(* answers is not withheld forever.                                        *)
Refreshed ==
  /\ Completed
  /\ ret' \in {"True", "False"}

PollNext ==
  \/ Start
  \/ Completed
  \/ BatchUpdateRequest
  \/ ProcessBatchResult
  \/ RemoteProgress
  \/ Tick

PollSpec ==
  /\ Init
  /\ [][PollNext]_vars
  /\ WF_vars(RemoteProgress)
  /\ WF_vars(Refreshed)

(* ---------------------------------------------------------------------- *)
(* Properties                                                              *)
(* ---------------------------------------------------------------------- *)
NeverStarted == job = NoJob /\ finish_time = NoTime

Running == job # NoJob /\ finish_time = NoTime

Finished == job # NoJob /\ finish_time # NoTime

(* The step is a call of the named method. *)
StartStep == op' = "start" /\ Start

RestartStep == op' = "restart" /\ Restart

CompletedStep == op' = "completed" /\ Completed

ProcessBatchResultStep == op' = "process_batch_result" /\ ProcessBatchResult

FetchResultStep == op' = "get_result" /\ FetchResult

BatchUpdateRequestStep == op' = "batch_update_request" /\ BatchUpdateRequest

ElapsedTimeStep == op' = "elapsed_time" /\ ElapsedTime

(* A restart whose precondition holds (it may still fail in its start). *)
RestartAccepted == job # NoJob /\ failed /\ RestartStep

(* C1: finish_time is set if and only if the most recently observed       *)
(* remote status (by a refresh or by a processed batch response) is        *)
(* terminal.                                                               *)
C1_FinishIffTerminalObserved ==
  (finish_time # NoTime) <=> IsTerminal(jobStatus)

(* C2: failed is true if and only if the most recently observed remote    *)
(* status is a failure terminal (Failed or Skipped).                       *)
C2_FailedIffFailureObserved ==
  failed <=> IsFailure(jobStatus)

(* C3: in every state exactly one of never-started, running, finished     *)
(* holds (finish_time is never set without a handle), and a handle is      *)
(* only ever dropped or replaced by restart.                               *)
C3_Trichotomy ==
  /\ [](/\ NeverStarted \/ Running \/ Finished
        /\ ~(NeverStarted /\ Running)
        /\ ~(NeverStarted /\ Finished)
        /\ ~(Running /\ Finished))
  /\ [][job # NoJob /\ job' # job => RestartStep]_vars

C3_Witness ==
  /\ op = "restart" /\ ret = "FacebookRequestError"
  /\ job = NoJob /\ finish_time = NoTime /\ issued = 1

(* C4: once finish_time is set, no operation other than a restart whose   *)
(* precondition holds changes its value.                                   *)
C4_FinishSetOnce ==
  [][finish_time # NoTime /\ ~RestartAccepted
       => finish_time' = finish_time]_vars

(* C5: three successive completed() calls whose refreshes see Running,    *)
(* Running, Completed return False, False, True; finish_time is unset      *)
(* after the first two and set after the third; failed stays false.        *)
C5_RunningRunningCompleted ==
  \A i \in 1..(Len(hist) - 2) :
    (/\ hist[i].seen = RUNNING /\ hist[i + 1].seen = RUNNING
     /\ hist[i + 2].seen = COMPLETED)
    => /\ hist[i].ret = "False" /\ hist[i + 1].ret = "False"
       /\ hist[i + 2].ret = "True"
       /\ ~hist[i].finished /\ ~hist[i + 1].finished
       /\ hist[i + 2].finished
       /\ ~hist[i].failed /\ ~hist[i + 1].failed /\ ~hist[i + 2].failed

C5_Witness ==
  /\ Len(hist) = 3
  /\ hist[1].seen = RUNNING /\ hist[2].seen = RUNNING
  /\ hist[3].seen = COMPLETED
  /\ op = "completed" /\ ret = "True" /\ finish_time # NoTime /\ ~failed

(* C6: a completed() call makes no remote call and returns True when      *)
(* finish_time is already set; on a started, unfinished job whose refresh  *)
(* succeeds at the first attempt it makes exactly one remote call, and     *)
(* returns False while the remote status is Running.                       *)
C6_RefreshCalls ==
  [][CompletedStep =>
       /\ finish_time # NoTime => calls' = 0 /\ ret' = "True"
       /\ (/\ job # NoJob /\ finish_time = NoTime
           /\ tries' = 1 /\ ret' \in {"True", "False"})
          => /\ calls' = 1
             /\ jobStatus' = remote
             /\ remote = RUNNING => ret' = "False"]_vars

C6_Witness ==
  /\ op = "completed" /\ calls = 0 /\ tries = 0 /\ ret = "True"
  /\ finish_time # NoTime /\ jobStatus = COMPLETED

(* C7: a restart of a failed job that succeeds installs a new handle and  *)
(* a new start_time with finish_time and failed cleared; finish_time and   *)
(* failed are only ever set by completed() or process_batch_result         *)
(* observing a terminal status.                                            *)
C7_RestartClears ==
  [][/\ (RestartAccepted /\ ret' = "None")
          => /\ job' # NoJob /\ job' # job
             /\ jobStatus' = NoStatus
             /\ start_time' = clock
             /\ finish_time' = NoTime
             /\ ~failed'
     /\ ((finish_time = NoTime /\ finish_time' # NoTime)
           \/ (~failed /\ failed'))
          => /\ CompletedStep \/ ProcessBatchResultStep
             /\ IsTerminal(jobStatus')
             /\ failed' => IsFailure(jobStatus')]_vars

C7_Witness ==
  /\ op = "restart" /\ ret = "None"
  /\ job = 2 /\ start_time # NoTime
  /\ finish_time = NoTime /\ ~failed

(* C8: restart fails with a usage error, without remote call and without  *)
(* effect, whenever the job was never started or its last observed status  *)
(* is not a failure terminal.                                              *)
C8_RestartRejected ==
  [][((job = NoJob \/ ~IsFailure(jobStatus)) /\ RestartStep)
       => /\ ret' = "RuntimeError" /\ calls' = 0
          /\ UNCHANGED <<job, start_time, finish_time, failed>>]_vars

(* C9: start on a job that has a handle fails with a usage error at once  *)
(* (one invocation, no remote call, no effect); start on a never-started   *)
(* job that succeeds sets the handle and start_time together.              *)
C9_StartGuard ==
  [][StartStep =>
       IF job # NoJob
         THEN /\ ret' = "RuntimeError" /\ tries' = 1 /\ calls' = 0
              /\ UNCHANGED <<job, jobStatus, start_time, finish_time,
                             failed>>
         ELSE /\ ret' = "None" => job' # NoJob /\ start_time' = clock
              /\ ret' # "None" => job' = NoJob /\ start_time' = NoTime
              /\ calls' >= 1]_vars

C9_Witness ==
  /\ op = "start" /\ ret = "RuntimeError" /\ calls = 0
  /\ job # NoJob /\ failed

(* C10: get_result fails with a usage error, without remote call or       *)
(* retry, exactly when the job was never started or failed; otherwise it   *)
(* issues the remote call; it never changes the job.                       *)
C10_FetchResultGuard ==
  [][FetchResultStep =>
       /\ (job = NoJob \/ failed) <=> ret' = "RuntimeError"
       /\ ret' = "RuntimeError" => calls' = 0 /\ tries' = 1
       /\ ret' # "RuntimeError" => calls' >= 1
       /\ UNCHANGED <<job, jobStatus, start_time, finish_time,
                      failed>>]_vars

C10_Witness ==
  /\ op = "get_result" /\ ret = "RuntimeError" /\ calls = 0
  /\ job # NoJob /\ failed

(* C11: process_batch_result with a response reporting a status leaves    *)
(* finish_time set or not, failed and the presence of the handle exactly   *)
(* as completed() on the same prior state would, had its refresh returned  *)
(* that status.                                                            *)
C11_BatchEqualsCompleted ==
  [][ProcessBatchResultStep =>
       LET seen == IF job = NoJob THEN remote ELSE jobStatus'
           c == completed(Self, clock, seen, 0, "ok").self
       IN /\ (finish_time' # NoTime) = (c.finish_time # NoTime)
          /\ failed' = c.failed
          /\ (job' # NoJob) = (c.job # NoJob)]_vars

(* C12: batch_update_request returns None for a job whose finish_time is  *)
(* set and a request for every job whose finish_time is not set, a         *)
(* never-started job included, and changes no job state.                   *)
C12_BatchUpdateRequest ==
  [][BatchUpdateRequestStep =>
       /\ finish_time # NoTime => ret' = "None"
       /\ finish_time = NoTime => ret' = "Request"
       /\ UNCHANGED <<job, jobStatus, start_time, finish_time,
                      failed>>]_vars

(* C13: a completed() call makes at most MaxTries refresh attempts; when  *)
(* the transient error persists it makes exactly MaxTries, the error       *)
(* propagates and the job is as before, not marked failed.                 *)
C13_RefreshExhausted ==
  [][CompletedStep =>
       /\ calls' <= MaxTries /\ tries' <= MaxTries
       /\ ret' = "FacebookRequestError"
            => /\ calls' = MaxTries
               /\ UNCHANGED <<job, jobStatus, start_time, finish_time,
                              failed>>]_vars

C13_Witness ==
  /\ op = "completed" /\ ret = "FacebookRequestError" /\ calls = MaxTries
  /\ job # NoJob /\ finish_time = NoTime /\ ~failed
  /\ IsFailure(remote)

(* C14: after a refresh or a parsed batch response, status Completed sets *)
(* finish_time to now with failed unchanged; Failed or Skipped sets        *)
(* finish_time to now and failed, without raising; any other status        *)
(* changes neither finish_time nor failed; start_time never changes;       *)
(* completed() returns True in the first two cases and False in the last.  *)
C14_TransitionRule ==
  [][(\/ (/\ CompletedStep /\ job # NoJob /\ finish_time = NoTime
          /\ ret' \in {"True", "False"})
      \/ (ProcessBatchResultStep /\ job # NoJob))
       => /\ start_time' = start_time /\ job' = job
          /\ jobStatus' \in Status
          /\ jobStatus' = COMPLETED
               => /\ finish_time' = clock /\ failed' = failed
                  /\ ret' = IF op' = "completed" THEN "True" ELSE "None"
          /\ jobStatus' \in {FAILED, SKIPPED}
               => /\ finish_time' = clock /\ failed'
                  /\ ret' = IF op' = "completed" THEN "True" ELSE "None"
          /\ jobStatus' \in {STARTED, RUNNING, NOT_STARTED}
               => /\ finish_time' = finish_time /\ failed' = failed
                  /\ ret' = IF op' = "completed" THEN "False"
                                                 ELSE "None"]_vars

C14_Witness ==
  /\ op = "process_batch_result" /\ ret = "None"
  /\ jobStatus = SKIPPED /\ failed /\ finish_time # NoTime

(* C15: once the job has finished successfully (finish_time set, failed   *)
(* false) no operation changes the handle, start_time, finish_time or      *)
(* failed.                                                                 *)
C15_SuccessImmutable ==
  [][(finish_time # NoTime /\ ~failed)
       => UNCHANGED <<job, start_time, finish_time, failed>>]_vars

(* C16: start_time is None exactly when the job has no handle, so         *)
(* elapsed_time returns None exactly for a never-started job; it changes   *)
(* no state.                                                               *)
C16_ElapsedTime ==
  /\ []((start_time = NoTime) <=> (job = NoJob))
  /\ [][ElapsedTimeStep =>
          /\ IF job = NoJob THEN ret' = "None" ELSE ret' \in 0..MaxClock
          /\ UNCHANGED <<job, jobStatus, start_time, finish_time,
                         failed>>]_vars

C16_Witness ==
  /\ op = "elapsed_time" /\ job = 2 /\ finish_time = NoTime
  /\ start_time = clock /\ ret = 0

(* C17: when restart passes its precondition and its start fails, the     *)
(* error propagates (after MaxTries calls when it is the transient one)    *)
(* and the job is never-started with all fields cleared; a restart of a    *)
(* job without handle is a usage error; only start gives a job without     *)
(* handle a handle.                                                        *)
C17_FailedRestart ==
  [][/\ (RestartAccepted /\ ret' # "None")
          => /\ ret' \in {"FacebookRequestError", "FatalError"}
             /\ ret' = "FacebookRequestError" => calls' = MaxTries
             /\ job' = NoJob /\ jobStatus' = NoStatus
             /\ start_time' = NoTime /\ finish_time' = NoTime
             /\ ~failed'
     /\ (job = NoJob /\ RestartStep)
          => /\ ret' = "RuntimeError" /\ calls' = 0
             /\ UNCHANGED <<job, jobStatus, start_time, finish_time,
                            failed>>
     /\ (job = NoJob /\ job' # NoJob) => StartStep]_vars

C17_Witness ==
  /\ op = "restart" /\ ret = "RuntimeError" /\ calls = 0
  /\ job = NoJob /\ issued = 1 /\ start_time = NoTime /\ ~failed

(* C18: in the polling loop, under fairness of the remote progress and of *)
(* answered refreshes, a started job eventually has finish_time set; it    *)
(* is set by a poll (completed() returning True, or process_batch_result), *)
(* stays set, and every later completed() returns True.                    *)
C18_PollingTerminates ==
  /\ (job # NoJob) ~> (finish_time # NoTime)
  /\ [][/\ (finish_time = NoTime /\ finish_time' # NoTime)
             => \/ CompletedStep /\ ret' = "True"
                \/ ProcessBatchResultStep
        /\ finish_time # NoTime => finish_time' # NoTime
        /\ (finish_time # NoTime /\ CompletedStep) => ret' = "True"]_vars

C18_Witness ==
  /\ op = "completed" /\ ret = "True" /\ calls = 1
  /\ finish_time # NoTime /\ IsTerminal(remote) /\ jobStatus = remote
  /\ Len(hist) >= 2 /\ hist[1].ret = "False"

(* C19: completed() on a job that was never started raises the usage      *)
(* error: one invocation, no remote call, the job stays never-started.     *)
C19_CompletedNeverStarted ==
  [][(job = NoJob /\ CompletedStep)
       => /\ ret' = "RuntimeError" /\ calls' = 0 /\ tries' = 1
          /\ UNCHANGED <<job, jobStatus, start_time, finish_time,
                         failed>>]_vars

C19_Witness ==
  /\ op = "completed" /\ ret = "RuntimeError" /\ calls = 0 /\ tries = 1
  /\ job = NoJob /\ finish_time = NoTime

(* C20: failed, once true, stays true until a restart whose precondition  *)
(* holds.                                                                  *)
C20_FailedOnlyResetByRestart ==
  [][(failed /\ ~failed') => RestartAccepted]_vars

C20_Witness ==
  /\ failed /\ op = "process_batch_result"
  /\ jobStatus \in {STARTED, RUNNING, NOT_STARTED}

====
